---------------------------- MODULE Spec2Model ----------------------------
(***************************************************************************)
(* A model of two parts of the bounded model checker:                      *)
(*   - the solver factory (solver_factoryt::get_solver and the getters it  *)
(*     dispatches to), checked under FactorySpec;                          *)
(*   - the driver of symbolic execution (goto_symext::symex_with_state,    *)
(*     symex_threaded_step, symex_step and the handlers it calls),         *)
(*     checked under Spec.                                                 *)
(***************************************************************************)
EXTENDS Integers, Sequences, FiniteSets, TLC

VARIABLES
  options,   \* solver_factoryt::options, the configuration record
  solver,    \* what get_solver() produced: a bundle or a thrown error
  state,     \* the goto_symex_statet the driver works on
  symex,     \* the members of the goto_symext object, the equation included
  where,     \* the position of the driver inside symex_with_state
  new_symbol_table, \* the caller's table the driver is to write the names to
  has_entry_point   \* whether get_goto_function finds the entry point

vars == <<options, solver, state, symex, where, new_symbol_table,
          has_entry_point>>

(***************************************************************************)
(*                          THE SOLVER FACTORY                             *)
(***************************************************************************)

Outfiles == {"", "-", "out.smt2", "unwritable"}
Families == {"boolector", "cprover-smt2", "mathsat", "cvc3", "cvc4",
             "yices", "z3", "generic"}
TimeLimits == {-1, 0, 1}

\* The option combinations the factory is run on.  The family options are
\* booleans of their own in the code; they are kept as the set of those set.
OptionSpace ==
  [dimacs : BOOLEAN, refine : BOOLEAN, refine_strings : BOOLEAN,
   smt2 : BOOLEAN, beautify : BOOLEAN, sat_preprocessor : BOOLEAN,
   all_properties : BOOLEAN, cover : BOOLEAN, incremental_check : BOOLEAN,
   fpa : BOOLEAN, outfile : Outfiles,
   family : {{}} \cup {{f} : f \in Families},
   solver_time_limit : TimeLimits]

NoOptions ==
  [dimacs |-> FALSE, refine |-> FALSE, refine_strings |-> FALSE,
   smt2 |-> FALSE, beautify |-> FALSE, sat_preprocessor |-> FALSE,
   all_properties |-> FALSE, cover |-> FALSE, incremental_check |-> FALSE,
   fpa |-> FALSE, outfile |-> "", family |-> {},
   solver_time_limit |-> 0]

\* The factory on the option combinations that decide the solver family:
\* any number of the family options set, with the options get_solver
\* selects the back end by and each outfile.
FamilyOptionSpace ==
  {[NoOptions EXCEPT !.dimacs = o.dimacs, !.refine = o.refine,
                     !.refine_strings = o.refine_strings, !.smt2 = o.smt2,
                     !.outfile = o.outfile, !.family = o.family] :
     o \in [dimacs : BOOLEAN, refine : BOOLEAN, refine_strings : BOOLEAN,
            smt2 : BOOLEAN, outfile : Outfiles, family : SUBSET Families]}

\* A solvert bundle under construction or returned; thrown # "none" is an
\* invalid_command_line_argument_exceptiont that left get_solver instead.
NoSolver ==
  [thrown |-> "none", option |-> "none", backend |-> "none", prop |-> "none",
   prop_conv |-> "none", ofstream |-> "none", dest |-> "none",
   logic |-> "none", use_FPA_theory |-> FALSE, family |-> "none",
   time_limit |-> 0]

\* The getter named backend threw: no bundle leaves get_solver.
Throw(backend, msg, opt) ==
  [NoSolver EXCEPT !.thrown = msg, !.option = opt, !.backend = backend]

\* set_prop_conv_time_limit: the limit is handed on only when positive.
set_prop_conv_time_limit(o, s) ==
  IF o.solver_time_limit > 0
  THEN [s EXCEPT !.time_limit = o.solver_time_limit]
  ELSE s

no_beautification_never(o) == ""

\* no_beautification: "" when it passes, else the option it rejects.
no_beautification(o) == IF o.beautify THEN "--beautify" ELSE ""

no_incremental_check_without_cover(o) ==
  IF o.all_properties THEN "--all_properties"
  ELSE IF o.incremental_check THEN "--incremental-check"
  ELSE ""

\* no_incremental_check: "" when it passes, else the option it rejects.
no_incremental_check(o) ==
  IF o.all_properties THEN "--all_properties"
  ELSE IF o.cover THEN "--cover"
  ELSE IF o.incremental_check THEN "--incremental-check"
  ELSE ""

get_smt2_solver_type_last_wins(o) ==
  IF "generic" \in o.family THEN "generic"
  ELSE IF "z3" \in o.family THEN "z3"
  ELSE IF "yices" \in o.family THEN "yices"
  ELSE IF "cvc4" \in o.family THEN "cvc4"
  ELSE IF "cvc3" \in o.family THEN "cvc3"
  ELSE IF "mathsat" \in o.family THEN "mathsat"
  ELSE IF "cprover-smt2" \in o.family THEN "cprover-smt2"
  ELSE IF "boolector" \in o.family THEN "boolector"
  ELSE "generic"

\* get_smt2_solver_type: the first family option set, in the order of the
\* if-chain; GENERIC when none is.
get_smt2_solver_type(o) ==
  IF "boolector" \in o.family THEN "boolector"
  ELSE IF "cprover-smt2" \in o.family THEN "cprover-smt2"
  ELSE IF "mathsat" \in o.family THEN "mathsat"
  ELSE IF "cvc3" \in o.family THEN "cvc3"
  ELSE IF "cvc4" \in o.family THEN "cvc4"
  ELSE IF "yices" \in o.family THEN "yices"
  ELSE IF "z3" \in o.family THEN "z3"
  ELSE "generic"

get_default_ignores_beautify(o) ==
  LET prop == IF ~o.sat_preprocessor
              THEN "satcheck_no_simplifier" ELSE "satcheck"
      s == [NoSolver EXCEPT !.backend = "default", !.prop = prop,
                            !.prop_conv = "bv_pointers"]
  IN set_prop_conv_time_limit(o, s)

get_default(o) ==
  LET prop == IF o.beautify \/ ~o.sat_preprocessor
              THEN "satcheck_no_simplifier" ELSE "satcheck"
      s == [NoSolver EXCEPT !.backend = "default", !.prop = prop,
                            !.prop_conv = "bv_pointers"]
  IN set_prop_conv_time_limit(o, s)

get_dimacs(o) ==
  IF no_beautification(o) # ""
  THEN Throw("dimacs", "the chosen solver does not support beautification",
             "--beautify")
  ELSE IF no_incremental_check(o) # ""
  THEN Throw("dimacs", "the chosen solver does not support incremental solving",
             no_incremental_check(o))
  ELSE [NoSolver EXCEPT !.backend = "dimacs", !.prop = "dimacs_cnf",
                        !.prop_conv = "bv_dimacs"]

get_bv_refinement(o) ==
  IF o.sat_preprocessor /\ no_beautification(o) # ""
  THEN Throw("refine", "the chosen solver does not support beautification",
             "--beautify")
  ELSE LET prop == IF o.sat_preprocessor
                   THEN "satcheck" ELSE "satcheck_no_simplifier"
           s == [NoSolver EXCEPT !.backend = "refine", !.prop = prop,
                                 !.prop_conv = "bv_refinement"]
       IN set_prop_conv_time_limit(o, s)

get_string_refinement(o) ==
  LET s == [NoSolver EXCEPT !.backend = "refine-strings",
                            !.prop = "satcheck_no_simplifier",
                            !.prop_conv = "string_refinement"]
  IN set_prop_conv_time_limit(o, s)

Smt2Bundle_with_prop(o, family, conv, dest, stream) ==
  set_prop_conv_time_limit(o,
    [NoSolver EXCEPT !.backend = "smt2", !.prop = "satcheck_no_simplifier",
                     !.prop_conv = conv, !.dest = dest,
                     !.ofstream = stream, !.logic = "QF_AUFBV",
                     !.use_FPA_theory = o.fpa, !.family = family])

\* The converter both stdout and file destinations build; the logic string
\* passed is always "QF_AUFBV", fpa only sets use_FPA_theory.
Smt2Bundle(o, family, conv, dest, stream) ==
  set_prop_conv_time_limit(o,
    [NoSolver EXCEPT !.backend = "smt2", !.prop_conv = conv, !.dest = dest,
                     !.ofstream = stream, !.logic = "QF_AUFBV",
                     !.use_FPA_theory = o.fpa, !.family = family])

get_smt2_generic_in_process(o, family) ==
  IF no_beautification(o) # ""
  THEN Throw("smt2", "the chosen solver does not support beautification",
             "--beautify")
  ELSE IF o.outfile = ""
  THEN Smt2Bundle(o, family, "smt2_dec", "in-process", "none")
  ELSE IF o.outfile = "-"
  THEN Smt2Bundle(o, family, "smt2_conv", "stdout", "none")
  ELSE IF o.outfile = "unwritable"
  THEN Throw("smt2", "failed to open file", "--outfile")
  ELSE Smt2Bundle(o, family, "smt2_conv", "file", "owned")

get_smt2(o, family) ==
  IF no_beautification(o) # ""
  THEN Throw("smt2", "the chosen solver does not support beautification",
             "--beautify")
  ELSE IF o.outfile = ""
  THEN IF family = "generic"
       THEN Throw("smt2", "required filename not provided", "--outfile")
       ELSE Smt2Bundle(o, family, "smt2_dec", "in-process", "none")
  ELSE IF o.outfile = "-"
  THEN Smt2Bundle(o, family, "smt2_conv", "stdout", "none")
  ELSE IF o.outfile = "unwritable"
  THEN Throw("smt2", "failed to open file", "--outfile")
  ELSE Smt2Bundle(o, family, "smt2_conv", "file", "owned")

get_solver_refine_first(o) ==
  IF o.refine THEN get_bv_refinement(o)
  ELSE IF o.dimacs THEN get_dimacs(o)
  ELSE IF o.refine_strings THEN get_string_refinement(o)
  ELSE IF o.smt2 THEN get_smt2(o, get_smt2_solver_type(o))
  ELSE get_default(o)

get_solver(o) ==
  IF o.dimacs THEN get_dimacs(o)
  ELSE IF o.refine THEN get_bv_refinement(o)
  ELSE IF o.refine_strings THEN get_string_refinement(o)
  ELSE IF o.smt2 THEN get_smt2(o, get_smt2_solver_type(o))
  ELSE get_default(o)

(***************************************************************************)
(*                     EXPRESSIONS, GUARDS, THE EQUATION                   *)
(***************************************************************************)

\* An expression is a node [id, ops].  The leaves: the constants true and
\* false, a symbol p that stays symbolic, and a symbol q whose current value
\* the renamer's constant propagation knows to be true.
Leaf(id) == [id |-> id, ops |-> <<>>]
true_exprt == Leaf("true")
false_exprt == Leaf("false")
SymP == Leaf("p")
SymQ == Leaf("q")
Node1(id, a) == [id |-> id, ops |-> <<a>>]
Node2(id, a, b) == [id |-> id, ops |-> <<a, b>>]

is_true(e) == e.id = "true"
is_false(e) == e.id = "false"

\* The conditions an ASSUME or a GOTO carries.
Conds == {true_exprt, false_exprt, SymP, SymQ}

\* The conditions an ASSERT carries: the above, and quantified ones.
AssertConds ==
  Conds \cup
  {Node1("forall", SymQ), Node1("forall", SymP), Node1("exists", SymQ),
   Node2("or", Node1("forall", SymQ), SymQ)}

RECURSIVE has_subexpr(_, _)
has_subexpr(e, id) ==
  \/ e.id = id
  \/ \E i \in 1..Len(e.ops) : has_subexpr(e.ops[i], id)

\* state.rename: a read of q resolves to the constant it is known to hold.
RECURSIVE rename(_)
rename(e) ==
  IF e.id = "q" THEN true_exprt
  ELSE [e EXCEPT !.ops = [i \in 1..Len(e.ops) |-> rename(e.ops[i])]]

\* do_simplify: constant folding of not, and, or; nothing else is rewritten.
RECURSIVE do_simplify(_)
do_simplify(e) ==
  LET ops == [i \in 1..Len(e.ops) |-> do_simplify(e.ops[i])]
      rest(unit) == SelectSeq(ops, LAMBDA x : x.id # unit)
  IN CASE e.id = "not" ->
            IF is_true(ops[1]) THEN false_exprt
            ELSE IF is_false(ops[1]) THEN true_exprt
            ELSE [e EXCEPT !.ops = ops]
       [] e.id = "and" ->
            IF \E i \in 1..Len(ops) : is_false(ops[i]) THEN false_exprt
            ELSE IF rest("true") = <<>> THEN true_exprt
            ELSE IF Len(rest("true")) = 1 THEN rest("true")[1]
            ELSE [e EXCEPT !.ops = rest("true")]
       [] e.id = "or" ->
            IF \E i \in 1..Len(ops) : is_true(ops[i]) THEN true_exprt
            ELSE IF rest("false") = <<>> THEN false_exprt
            ELSE IF Len(rest("false")) = 1 THEN rest("false")[1]
            ELSE [e EXCEPT !.ops = rest("false")]
       [] OTHER -> [e EXCEPT !.ops = ops]

\* A guard is the list of its conjuncts; the false guard is the list <<false>>.
guard_true == <<>>
guard_false == <<false_exprt>>
guard_is_false(g) == g = guard_false
guard_is_true(g) == g = guard_true

\* guardt::add: false collapses the guard, true is dropped, a conjunct already
\* there is not added again.
guard_add(g, e) ==
  IF guard_is_false(g) \/ is_true(e) THEN g
  ELSE IF is_false(e) THEN guard_false
  ELSE IF \E i \in 1..Len(g) : g[i] = e THEN g
  ELSE Append(g, e)

\* guardt::as_expr: the conjunction of the conjuncts.
guard_as_expr(g) ==
  IF g = <<>> THEN true_exprt
  ELSE IF Len(g) = 1 THEN g[1]
  ELSE [id |-> "and", ops |-> g]

\* guardt::guard_expr: e becomes guard => e.
guard_expr(g, e) == Node2("=>", guard_as_expr(g), e)

\* The disjunction of two guards at a merge: the conjuncts both begin with;
\* a false guard contributes nothing.
RECURSIVE CommonPrefix(_, _)
CommonPrefix(a, b) ==
  IF a = <<>> \/ b = <<>> \/ Head(a) # Head(b) THEN <<>>
  ELSE <<Head(a)>> \o CommonPrefix(Tail(a), Tail(b))

guard_or(a, b) ==
  IF guard_is_false(a) THEN b
  ELSE IF guard_is_false(b) THEN a
  ELSE CommonPrefix(a, b)

\* One step of the equation (symex_target_equationt).
SSA_step(kind, g, cond, msg, src) ==
  [kind |-> kind, guard |-> guard_as_expr(g), cond |-> cond, msg |-> msg,
   pc |-> src.pc, thread_nr |-> src.thread_nr]

(***************************************************************************)
(*                      THE PROGRAM AND THE STATE                          *)
(***************************************************************************)

\* Bounds of the model.
MaxSteps == 3      \* instructions executed along one path
MaxTarget == 2     \* how far ahead of the pc a forward target may lie
MaxStored == 2     \* states in path storage up to which the caller resumes

\* std::numeric_limits<unsigned>::max(), the initial _total_vccs: written as
\* the signed reading of its bit pattern, a value no count of the model takes.
UINT_MAX == -1

\* The loops of the program: <<location of the backwards goto, its target>>.
\* Every other goto of the program is a forward goto.
LoopEdges == {<<3, 2>>, <<4, 2>>}
LoopIds == {e[1] : e \in LoopEdges}
LoopTarget(loc) == (CHOOSE e \in LoopEdges : e[1] = loc)[2]

\* instructiont::incoming_edges, restricted to the backwards gotos.
IncomingBackEdges(to) == {e[1] : e \in {x \in LoopEdges : x[2] = to}}

\* Location of the first instruction of the one function that has a body.
FunctionEntry == 6

Instr(type, cond, target) == [type |-> type, guard |-> cond, target |-> target]

\* The instructions the program may hold at location pc.  A location of
\* LoopIds holds the backwards goto of its loop; any other location holds an
\* instruction of any kind, its targets forward.
Instructions(pc) ==
  IF pc \in LoopIds
  THEN {Instr("GOTO", c, LoopTarget(pc)) : c \in Conds}
  ELSE {Instr(t, true_exprt, -1) :
          t \in {"SKIP", "END_FUNCTION", "LOCATION", "RETURN", "ASSIGN",
                 "OTHER", "DECL", "DEAD", "END_THREAD", "ATOMIC_BEGIN",
                 "ATOMIC_END", "CATCH", "THROW", "NO_INSTRUCTION_TYPE"}}
       \cup {Instr("GOTO", c, pc + MaxTarget) : c \in Conds}
       \cup {Instr("ASSUME", c, -1) : c \in Conds}
       \cup {Instr("ASSERT", c, -1) : c \in AssertConds}
       \cup {Instr("FUNCTION_CALL", true_exprt, t) : t \in {-1, FunctionEntry}}
       \cup {Instr("START_THREAD", true_exprt, pc + MaxTarget)}

\* symex_configt, as far as the driver reads it.
Config(depth, paths, assertions, partial) ==
  [max_depth |-> depth, doing_path_exploration |-> paths,
   unwinding_assertions |-> assertions, partial_loops |-> partial]

\* The configurations the driver is run under: no option set, and each
\* option alone; the two loop options also together.
Configs ==
  {Config(0, FALSE, FALSE, FALSE), Config(1, FALSE, FALSE, FALSE),
   Config(0, TRUE, FALSE, FALSE), Config(1, TRUE, FALSE, FALSE),
   Config(0, FALSE, TRUE, FALSE), Config(0, FALSE, FALSE, TRUE),
   Config(0, FALSE, TRUE, TRUE)}

\* The calling location of the entry frame: initialize_entry_point sets it to
\* the frame's own end_of_function, the location its END_FUNCTION is met at.
EndOfFunction == -1

\* goto_symex_statet::framet
new_frame(calling_pc) ==
  [calling_pc |-> calling_pc,
   loop_iterations |-> [l \in LoopIds |-> 0],
   goto_state_map |-> {},
   catch_map |-> 0]

\* goto_symex_statet::threadt
new_thread(pc, g, stack) ==
  [pc |-> pc, atomic_section_id |-> 0, guard |-> g, call_stack |-> stack]

\* A goto_symex_statet as its constructor leaves it: one thread, one frame.
fresh_state ==
  [threads |-> <<new_thread(0, guard_true, <<new_frame(0)>>)>>,
   source |-> [pc |-> 0, thread_nr |-> 0],
   guard |-> guard_true,
   atomic_section_id |-> 0,
   depth |-> 0,
   total_vccs |-> 0,
   remaining_vccs |-> 0,
   has_saved_jump_target |-> FALSE,
   has_saved_next_instruction |-> FALSE,
   symbol_table |-> 0,
   symex_target |-> "null"]

\* The goto_symext object as its constructor leaves it.
fresh_symex(cfg) ==
  [should_pause_symex |-> FALSE,
   symex_config |-> cfg,
   ns |-> "outer",
   target |-> <<>>,
   atomic_section_counter |-> 0,
   path_storage |-> <<>>,
   path_segment_vccs |-> 0,
   _total_vccs |-> UINT_MAX,
   _remaining_vccs |-> UINT_MAX]

\* The handlers work on c = [st, sx, exn]: the state, the goto_symext object
\* and the exception in flight ("none" when there is none).
Ctx(st, sx) == [st |-> st, sx |-> sx, exn |-> "none"]

Cur(c) == c.st.source.thread_nr + 1
call_stack(c) == c.st.threads[Cur(c)].call_stack
top(c) == call_stack(c)[Len(call_stack(c))]
SetTop(c, f) ==
  [c EXCEPT !.st.threads[Cur(c)].call_stack[Len(call_stack(c))] = f]

Emit_overwrite(c, kind, cond, msg) ==
  LET step == SSA_step(kind, c.st.guard, cond, msg, c.st.source)
  IN [c EXCEPT !.sx.target =
        IF @ = <<>> THEN <<step>>
        ELSE [@ EXCEPT ![Len(@)] = step]]

\* target.location, target.assumption, target.assertion and the like: the
\* step is appended to the equation.
Emit(c, kind, cond, msg) ==
  [c EXCEPT !.sx.target =
     Append(@, SSA_step(kind, c.st.guard, cond, msg, c.st.source))]

(***************************************************************************)
(*                            THE HANDLERS                                 *)
(***************************************************************************)

\* symex_transition(state, to, is_backwards_goto)
symex_transition_to_resets_all(c, to, is_backwards_goto) ==
  LET entered == IncomingBackEdges(to)
      c1 == IF call_stack(c) # <<>>
            THEN SetTop(c, [top(c) EXCEPT !.loop_iterations =
                   [l \in LoopIds |-> IF l \in entered THEN 0 ELSE @[l]]])
            ELSE c
  IN [c1 EXCEPT !.st.source.pc = to]

symex_transition_to_or_equal(c, to, is_backwards_goto) ==
  LET entered == {i_e \in IncomingBackEdges(to) :
                    \/ ~is_backwards_goto
                    \/ c.st.source.pc >= i_e}
      c1 == IF call_stack(c) # <<>>
            THEN SetTop(c, [top(c) EXCEPT !.loop_iterations =
                   [l \in LoopIds |-> IF l \in entered THEN 0 ELSE @[l]]])
            ELSE c
  IN [c1 EXCEPT !.st.source.pc = to]

symex_transition_to(c, to, is_backwards_goto) ==
  LET entered == {i_e \in IncomingBackEdges(to) :
                    \/ ~is_backwards_goto
                    \/ c.st.source.pc > i_e}
      c1 == IF call_stack(c) # <<>>
            THEN SetTop(c, [top(c) EXCEPT !.loop_iterations =
                   [l \in LoopIds |-> IF l \in entered THEN 0 ELSE @[l]]])
            ELSE c
  IN [c1 EXCEPT !.st.source.pc = to]

\* symex_transition(state): on to the next instruction.
symex_transition(c) == symex_transition_to(c, c.st.source.pc + 1, FALSE)

\* symex_decl(state, expr): a declaration step for the fresh instance.
symex_decl(c) == Emit(c, "decl", true_exprt, "")

\* rewrite_quantifiers: forall X. P becomes P, X declared afresh; the
\* operands of and/or are rewritten in turn.  The result is [c, e].
RECURSIVE rewrite_quantifiers(_, _)
RECURSIVE rewrite_operands(_, _, _)
rewrite_operands(c, e, i) ==
  IF i > Len(e.ops) THEN [c |-> c, e |-> e]
  ELSE LET r == rewrite_quantifiers(c, e.ops[i])
       IN rewrite_operands(r.c, [e EXCEPT !.ops[i] = r.e], i + 1)

rewrite_quantifiers(c, e) ==
  IF e.id = "forall"
  THEN rewrite_quantifiers(symex_decl(c), e.ops[1])
  ELSE IF e.id = "or" \/ e.id = "and"
  THEN rewrite_operands(c, e, 1)
  ELSE [c |-> c, e |-> e]

vcc_without_total(c, vcc_expr, msg) ==
  LET c1 == [c EXCEPT !.sx.path_segment_vccs = @ + 1]
      r == IF has_subexpr(vcc_expr, "exists") \/ has_subexpr(vcc_expr, "forall")
           THEN rewrite_quantifiers(c1, do_simplify(vcc_expr))
           ELSE [c |-> c1, e |-> vcc_expr]
      expr == do_simplify(rename(r.e))
  IN IF is_true(expr) THEN r.c
     ELSE Emit([r.c EXCEPT !.st.remaining_vccs = @ + 1], "assertion",
               guard_expr(r.c.st.guard, expr), msg)

vcc_counts_remaining_always(c, vcc_expr, msg) ==
  LET c1 == [c EXCEPT !.st.total_vccs = @ + 1,
                      !.st.remaining_vccs = @ + 1,
                      !.sx.path_segment_vccs = @ + 1]
      r == IF has_subexpr(vcc_expr, "exists") \/ has_subexpr(vcc_expr, "forall")
           THEN rewrite_quantifiers(c1, do_simplify(vcc_expr))
           ELSE [c |-> c1, e |-> vcc_expr]
      expr == do_simplify(rename(r.e))
  IN IF is_true(expr) THEN r.c
     ELSE Emit(r.c, "assertion", guard_expr(r.c.st.guard, expr), msg)

\* goto_symext::vcc
vcc(c, vcc_expr, msg) ==
  LET c1 == [c EXCEPT !.st.total_vccs = @ + 1,
                      !.sx.path_segment_vccs = @ + 1]
      r == IF has_subexpr(vcc_expr, "exists") \/ has_subexpr(vcc_expr, "forall")
           THEN rewrite_quantifiers(c1, do_simplify(vcc_expr))
           ELSE [c |-> c1, e |-> vcc_expr]
      expr == do_simplify(rename(r.e))
  IN IF is_true(expr) THEN r.c
     ELSE Emit([r.c EXCEPT !.st.remaining_vccs = @ + 1], "assertion",
               guard_expr(r.c.st.guard, expr), msg)

\* symex_atomic_end: the section is closed whatever the guard; the step is
\* recorded only on a feasible path.
symex_atomic_end(c) ==
  LET c1 == IF guard_is_false(c.st.guard) THEN c
            ELSE Emit(c, "atomic_end", true_exprt, "")
  IN [c1 EXCEPT !.st.atomic_section_id = 0]

symex_assume_always_step(c, cond) ==
  LET simplified_cond == do_simplify(cond)
  IN IF is_true(simplified_cond) THEN c
     ELSE Emit(c, "assumption", guard_expr(c.st.guard, simplified_cond), "")

\* goto_symext::symex_assume
symex_assume(c, cond) ==
  LET simplified_cond == do_simplify(cond)
      c1 == IF Len(c.st.threads) = 1
            THEN Emit(c, "assumption",
                      guard_expr(c.st.guard, simplified_cond), "")
            ELSE [c EXCEPT !.st.guard = guard_add(@, simplified_cond)]
  IN IF is_true(simplified_cond) THEN c
     ELSE IF c1.st.atomic_section_id # 0 /\ guard_is_false(c1.st.guard)
     THEN symex_atomic_end(c1)
     ELSE c1

switch_to_thread_keeps_guard(c, thread_nb) ==
  LET cur == Cur(c)
      c1 == [c EXCEPT !.st.threads[cur].pc = c.st.source.pc,
                      !.st.threads[cur].atomic_section_id =
                         c.st.atomic_section_id]
  IN [c1 EXCEPT !.st.source.thread_nr = thread_nb,
                !.st.source.pc = c1.st.threads[thread_nb + 1].pc]

\* switch_to_thread; its two preconditions abort when violated.
switch_to_thread(c, thread_nb) ==
  LET cur == Cur(c)
      c1 == [c EXCEPT !.st.threads[cur].pc = c.st.source.pc,
                      !.st.threads[cur].atomic_section_id =
                         c.st.atomic_section_id]
  IN IF ~(c.st.source.thread_nr < Len(c.st.threads))
        \/ ~(thread_nb < Len(c.st.threads))
     THEN [c EXCEPT !.exn = "precondition"]
     ELSE [c1 EXCEPT !.st.source.thread_nr = thread_nb,
                     !.st.source.pc = c1.st.threads[thread_nb + 1].pc,
                     !.st.guard = c1.st.threads[thread_nb + 1].guard]

\* pop_frame, as symex_end_of_function calls it: back to the calling
\* location, the frame gone.  It runs whatever the guard.
symex_end_of_function(c) ==
  LET f == top(c)
      stack == call_stack(c)
      back == IF f.calling_pc = EndOfFunction
              THEN c.st.source.pc ELSE f.calling_pc
  IN [c EXCEPT !.st.source.pc = back,
               !.st.threads[Cur(c)].call_stack =
                  SubSeq(stack, 1, Len(stack) - 1)]

\* symex_function_call: a function without body binds the result and goes on;
\* a function with a body gets a frame, its parameters assigned, and the pc
\* moves to its first instruction.
symex_function_call(c, ins) ==
  IF ins.target = -1
  THEN symex_transition(Emit(c, "assignment", true_exprt, "no_body"))
  ELSE LET c1 == [c EXCEPT !.st.threads[Cur(c)].call_stack =
                     Append(@, new_frame(c.st.source.pc))]
       IN symex_transition_to(
            Emit(c1, "assignment", true_exprt, "parameter"), ins.target, FALSE)

\* symex_start_thread: a new thread record with the target as its pc, a copy
\* of the guard and a frame of its own.
symex_start_thread(c, ins) ==
  IF guard_is_false(c.st.guard) THEN c
  ELSE LET frame == [top(c) EXCEPT !.goto_state_map = {}]
           c1 == Emit(c, "spawn", true_exprt, "")
       IN [c1 EXCEPT !.st.threads =
             Append(@, new_thread(ins.target, c.st.guard, <<frame>>))]

symex_atomic_begin(c) ==
  IF guard_is_false(c.st.guard) THEN c
  ELSE LET id == c.sx.atomic_section_counter + 1
           c1 == [c EXCEPT !.sx.atomic_section_counter = id,
                           !.st.atomic_section_id = id]
       IN Emit(c1, "atomic_begin", true_exprt, "")

\* symex_dead: the renaming of the symbol is invalidated; the model keeps no
\* renaming, and nothing else changes.
symex_dead(c) == c

\* symex_catch: a handler is pushed on the frame.
symex_catch(c) ==
  IF guard_is_false(c.st.guard) THEN c
  ELSE SetTop(c, [top(c) EXCEPT !.catch_map = @ + 1])

\* symex_throw: without a handler on the call stack the path is infeasible.
symex_throw(c) ==
  IF guard_is_false(c.st.guard) THEN c
  ELSE IF \E i \in 1..Len(call_stack(c)) : call_stack(c)[i].catch_map > 0
  THEN c
  ELSE [c EXCEPT !.st.guard = guard_false]

symex_assign(c) == Emit(c, "assignment", true_exprt, "")
return_assignment(c) == Emit(c, "assignment", true_exprt, "return")

\* symex_other: the lowering of an allocation, which mints a new name in the
\* state's symbol table and assigns it.
symex_other(c) ==
  Emit([c EXCEPT !.st.symbol_table = @ + 1], "assignment", true_exprt, "other")

\* merge_gotos: the states saved for this pc are merged into the current one,
\* in the order they were saved: the guards' disjunction, and a phi
\* assignment if a variable was written since the state was saved.
\* How many level-2 instances the path has made so far: one for each
\* assignment and declaration in the equation.
level2_made(c) ==
  Cardinality({i \in 1..Len(c.sx.target) :
                 c.sx.target[i].kind \in {"assignment", "decl"}})

RECURSIVE merge_goto_list(_, _)
merge_goto_list(c, todo) ==
  IF todo = {} THEN c
  ELSE LET gs == CHOOSE x \in todo : \A y \in todo : x.seq <= y.seq
           c1 == [c EXCEPT !.st.guard = guard_or(@, gs.guard)]
           c2 == IF level2_made(c) # gs.level2
                 THEN Emit(c1, "assignment", true_exprt, "phi")
                 ELSE c1
       IN merge_goto_list(c2, todo \ {gs})

merge_gotos(c) ==
  LET here == {gs \in top(c).goto_state_map : gs.pc = c.st.source.pc}
      c1 == SetTop(c, [top(c) EXCEPT !.goto_state_map = @ \ here])
  IN merge_goto_list(c1, here)

Not(e) == do_simplify(Node1("not", e))

\* loop_bound_exceeded: an unwinding assertion if asked for, and the path is
\* cut unless partial loops are allowed.
loop_bound_exceeded(c, cond) ==
  LET c1 == IF c.sx.symex_config.unwinding_assertions
            THEN vcc(c, Not(cond), "unwinding assertion")
            ELSE c
  IN IF c.sx.symex_config.partial_loops THEN c1
     ELSE [c1 EXCEPT !.st.guard = guard_false]

\* The two successors of a symbolic goto go to path storage, each a copy of
\* the state marked with the branch it is to follow when resumed.
SavePaths(c) ==
  [c EXCEPT !.sx.path_storage =
     @ \o <<[c.st EXCEPT !.has_saved_next_instruction = TRUE],
            [c.st EXCEPT !.has_saved_jump_target = TRUE]>>,
     !.sx.should_pause_symex = TRUE]

\* symex_goto; stop is what should_stop_unwind answers for this traversal.
symex_goto(c, ins, stop) ==
  LET pc == c.st.source.pc
      new_guard == do_simplify(rename(ins.guard))
      backward == ins.target <= pc
      counted == IF backward
                 THEN SetTop(c, [top(c) EXCEPT !.loop_iterations[pc] = @ + 1])
                 ELSE c
      taken == symex_transition_to(
                 [counted EXCEPT !.st.guard = guard_add(@, new_guard)],
                 ins.target, backward)
      fall == symex_transition(
                 [counted EXCEPT !.st.guard = guard_add(@, Not(new_guard))])
      saved(at, g) ==
        [pc |-> at, guard |-> g,
         seq |-> Cardinality(top(counted).goto_state_map),
         level2 |-> level2_made(c)]
  IN IF guard_is_false(c.st.guard) THEN symex_transition(c)
     ELSE IF is_false(new_guard) THEN symex_transition(c)
     ELSE IF backward /\ stop
     THEN symex_transition(loop_bound_exceeded(counted, new_guard))
     ELSE IF is_true(new_guard)
     THEN symex_transition_to(counted, ins.target, backward)
     ELSE IF c.st.has_saved_jump_target THEN taken
     ELSE IF c.st.has_saved_next_instruction THEN fall
     ELSE IF c.sx.symex_config.doing_path_exploration THEN SavePaths(counted)
     ELSE IF backward
     THEN SetTop(taken, [top(taken) EXCEPT !.goto_state_map =
            @ \cup {saved(pc + 1, guard_add(c.st.guard, Not(new_guard)))}])
     ELSE SetTop(fall, [top(fall) EXCEPT !.goto_state_map =
            @ \cup {saved(ins.target, guard_add(c.st.guard, new_guard))}])

(***************************************************************************)
(*                      THE DISPATCHER AND THE DRIVER                      *)
(***************************************************************************)

\* symex_step before the switch: the gotos saved for this pc are merged
\* (unless paths are explored), the depth is checked and counted.
BeforeDispatch(c) ==
  LET c1 == IF ~c.sx.symex_config.doing_path_exploration
            THEN merge_gotos(c) ELSE c
      c2 == IF c1.sx.symex_config.max_depth # 0
               /\ c1.st.depth > c1.sx.symex_config.max_depth
            THEN [c1 EXCEPT !.st.guard = guard_add(@, false_exprt)]
            ELSE c1
  IN [c2 EXCEPT !.st.depth = @ + 1]

case_ASSERT_unguarded(c, ins) ==
  symex_transition(vcc(c, ins.guard, "assertion"))

\* case ASSERT of the switch.
case_ASSERT(c, ins) ==
  symex_transition(
    IF ~guard_is_false(c.st.guard) THEN vcc(c, ins.guard, "assertion")
    ELSE c)

\* The switch over instruction.type.
Dispatch(c, ins, stop) ==
  LET live == ~guard_is_false(c.st.guard)
      t == ins.type
  IN CASE t = "SKIP" \/ t = "LOCATION" ->
            symex_transition(
              IF live THEN Emit(c, "location", true_exprt, "") ELSE c)
       [] t = "END_FUNCTION" ->
            symex_transition(symex_end_of_function(c))
       [] t = "GOTO" -> symex_goto(c, ins, stop)
       [] t = "ASSUME" ->
            symex_transition(
              IF live THEN symex_assume(c, rename(ins.guard)) ELSE c)
       [] t = "ASSERT" -> case_ASSERT(c, ins)
       [] t = "RETURN" ->
            symex_transition(IF live THEN return_assignment(c) ELSE c)
       [] t = "ASSIGN" ->
            symex_transition(IF live THEN symex_assign(c) ELSE c)
       [] t = "FUNCTION_CALL" ->
            IF live THEN symex_function_call(c, ins) ELSE symex_transition(c)
       [] t = "OTHER" ->
            symex_transition(IF live THEN symex_other(c) ELSE c)
       [] t = "DECL" ->
            symex_transition(IF live THEN symex_decl(c) ELSE c)
       [] t = "DEAD" -> symex_transition(symex_dead(c))
       [] t = "START_THREAD" -> symex_transition(symex_start_thread(c, ins))
       [] t = "END_THREAD" ->
            symex_transition(
              IF live THEN [c EXCEPT !.st.guard = guard_add(@, false_exprt)]
              ELSE c)
       [] t = "ATOMIC_BEGIN" -> symex_transition(symex_atomic_begin(c))
       [] t = "ATOMIC_END" -> symex_transition(symex_atomic_end(c))
       [] t = "CATCH" -> symex_transition(symex_catch(c))
       [] t = "THROW" -> symex_transition(symex_throw(c))
       [] OTHER -> [c EXCEPT !.exn = "unsupported_operation"]

\* goto_symext::symex_step; a violated precondition aborts.
symex_step(c, ins, stop) ==
  IF c.st.threads = <<>> \/ call_stack(c) = <<>>
  THEN [c EXCEPT !.exn = "precondition"]
  ELSE Dispatch(BeforeDispatch(c), ins, stop)

another_thread_anytime(c) ==
  c.st.source.thread_nr + 1 < Len(c.st.threads)

\* Whether symex_threaded_step goes on to another thread after the step.
another_thread(c) ==
  /\ call_stack(c) = <<>>
  /\ c.st.source.thread_nr + 1 < Len(c.st.threads)

after_step_caches_nothing(c) ==
  LET c2 == switch_to_thread(c, c.st.source.thread_nr + 1)
  IN IF c.exn # "none" THEN c
     ELSE IF c.sx.should_pause_symex THEN c
     ELSE IF another_thread(c)
     THEN IF c2.exn # "none" THEN c2
          ELSE symex_transition_to(c2, c2.st.source.pc, FALSE)
     ELSE c

\* goto_symext::symex_threaded_step, given the state after its symex_step.
after_step(c) ==
  LET c1 == [c EXCEPT !.sx._total_vccs = c.st.total_vccs,
                      !.sx._remaining_vccs = c.st.remaining_vccs]
      c2 == switch_to_thread(c1, c1.st.source.thread_nr + 1)
  IN IF c.exn # "none" THEN c
     ELSE IF c1.sx.should_pause_symex THEN c1
     ELSE IF another_thread(c1)
     THEN IF c2.exn # "none" THEN c2
          ELSE symex_transition_to(c2, c2.st.source.pc, FALSE)
     ELSE c1

symex_threaded_step(c, ins, stop) == after_step(symex_step(c, ins, stop))

\* get_total_vccs and get_remaining_vccs: the cached count, and whether the
\* INVARIANT that it is not the initial value fails.
get_total_vccs(sx) ==
  [invariant_violated |-> sx._total_vccs = UINT_MAX,
   value |-> sx._total_vccs]

get_remaining_vccs(sx) ==
  [invariant_violated |-> sx._remaining_vccs = UINT_MAX,
   value |-> sx._remaining_vccs]

\* initialize_entry_point on the entry function, whose first instruction is
\* at location 0.
initialize_entry_point(c) ==
  IF c.st.threads = <<>> \/ call_stack(c) = <<>>
  THEN [c EXCEPT !.exn = "precondition"]
  ELSE LET c1 == [c EXCEPT !.st.source = [pc |-> 0, thread_nr |-> 0],
                           !.st.symex_target = "target"]
           c2 == SetTop(c1, [top(c1) EXCEPT !.calling_pc = EndOfFunction])
       IN symex_transition_to(c2, c2.st.source.pc, FALSE)

\* new_symbol_table as the caller passes it: a table that is no copy of any
\* state's symbol table, which counts the names minted and is never negative.
CallersTable == 0 - 1

TypeOK ==
  /\ options \in OptionSpace \cup FamilyOptionSpace
  /\ where \in {"constructed", "first", "loop", "done", "paused", "thrown",
                "aborted", "factory", "returned", "transition",
                "transitioned", "transitioned backwards"}

Init ==
  /\ options = NoOptions
  /\ solver = NoSolver
  /\ state = fresh_state
  /\ \E cfg \in Configs : symex = fresh_symex(cfg)
  /\ where = "constructed"
  /\ new_symbol_table = CallersTable
  /\ has_entry_point \in BOOLEAN

\* symex_from_entry_point_of, up to the first step of symex_with_state: the
\* state is initialised and the namespace made to wrap both symbol tables.
symex_from_entry_point_of_unchecked ==
  /\ where = "constructed"
  /\ LET c == initialize_entry_point(Ctx(state, symex))
     IN /\ state' = c.st
        /\ symex' = [c.sx EXCEPT !.ns = "outer+state"]
        /\ where' = "first"
  /\ UNCHANGED <<options, solver, new_symbol_table, has_entry_point>>

\* get_goto_function(entry_point()) either finds the function or throws
\* std::out_of_range, which leaves as an unsupported_operation_exceptiont
\* before the state is constructed.
symex_from_entry_point_of ==
  /\ where = "constructed"
  /\ IF ~has_entry_point
     THEN /\ where' = "thrown"
          /\ UNCHANGED <<state, symex>>
     ELSE LET c == initialize_entry_point(Ctx(state, symex))
          IN /\ state' = c.st
             /\ symex' = [c.sx EXCEPT !.ns = "outer+state"]
             /\ where' = "first"
  /\ UNCHANGED <<options, solver, new_symbol_table, has_entry_point>>

\* The state a symex_threaded_step of symex_with_state starts from: the loop
\* clears the two saved-branch flags before each of its steps.
Entered ==
  IF where = "loop"
  THEN [state EXCEPT !.has_saved_jump_target = FALSE,
                     !.has_saved_next_instruction = FALSE]
  ELSE state

\* should_stop_unwind is asked only on a backwards goto.  A state that was
\* saved at a goto is resumed at that goto, whose condition is symbolic.
Choice(ins, stop) ==
  /\ ins \in Instructions(state.source.pc)
  /\ stop => ins.type = "GOTO" /\ ins.target <= state.source.pc
  /\ Entered.has_saved_jump_target \/ Entered.has_saved_next_instruction
       => ins.type = "GOTO" /\ ins.guard = SymP

AfterThreadedStep_ignores_pause(c) ==
  IF c.exn = "precondition" THEN "aborted"
  ELSE IF c.exn # "none" THEN "thrown"
  ELSE "loop"

AfterThreadedStep_swallows_exception(c) ==
  IF c.exn = "precondition" THEN "aborted"
  ELSE IF c.sx.should_pause_symex THEN "paused"
  ELSE "loop"

\* Where symex_with_state is after a symex_threaded_step that ended in c.
AfterThreadedStep(c) ==
  IF c.exn = "precondition" THEN "aborted"
  ELSE IF c.exn # "none" THEN "thrown"
  ELSE IF c.sx.should_pause_symex THEN "paused"
  ELSE "loop"

ThreadedStep_resets_on_return_only(ins, stop) ==
  LET c == symex_threaded_step(Ctx(Entered, symex), ins, stop)
  IN /\ state' = c.st
     /\ where' = AfterThreadedStep(c)
     /\ symex' = IF AfterThreadedStep(c) \in {"loop", "thrown"} THEN c.sx
                 ELSE [c.sx EXCEPT !.ns = "outer"]

\* One symex_threaded_step of symex_with_state and what follows it: the
\* return on a pause, and the namespace reset on every way out.
ThreadedStep(ins, stop) ==
  LET c == symex_threaded_step(Ctx(Entered, symex), ins, stop)
  IN /\ state' = c.st
     /\ where' = AfterThreadedStep(c)
     /\ symex' = IF AfterThreadedStep(c) = "loop" THEN c.sx
                 ELSE [c.sx EXCEPT !.ns = "outer"]

resume_symex_from_saved_state_initializes(saved_state) ==
  initialize_entry_point(
    Ctx([saved_state EXCEPT !.symex_target = "saved_equation"],
        fresh_symex(Config(0, FALSE, FALSE, FALSE)))).st

\* resume_symex_from_saved_state: the state symex_with_state is called on,
\* a copy of the saved one that points to the equation passed.
resume_symex_from_saved_state(saved_state) ==
  [saved_state EXCEPT !.symex_target = "saved_equation"]

Resume_clears_pause ==
  /\ where = "paused"
  /\ Len(symex.path_storage) <= MaxStored
  /\ \E i \in 1..Len(symex.path_storage), same_object \in BOOLEAN :
       /\ state' = resume_symex_from_saved_state(symex.path_storage[i])
       /\ symex' =
            [(IF same_object THEN symex
              ELSE [fresh_symex(symex.symex_config) EXCEPT
                      !.path_storage = symex.path_storage])
             EXCEPT !.ns = "outer+state", !.should_pause_symex = FALSE]
  /\ where' = "first"
  /\ UNCHANGED <<options, solver, new_symbol_table, has_entry_point>>

\* The caller resumes one of the states in path storage, on the object that
\* paused or on a goto_symext constructed for the new path, with its own
\* equation, on the same path storage.
Resume ==
  /\ where = "paused"
  /\ Len(symex.path_storage) <= MaxStored
  /\ \E i \in 1..Len(symex.path_storage), same_object \in BOOLEAN :
       /\ state' = resume_symex_from_saved_state(symex.path_storage[i])
       /\ symex' =
            [(IF same_object THEN symex
              ELSE [fresh_symex(symex.symex_config) EXCEPT
                      !.path_storage = symex.path_storage])
             EXCEPT !.ns = "outer+state"]
  /\ where' = "first"
  /\ UNCHANGED <<options, solver, new_symbol_table, has_entry_point>>

FirstStep_writes_table ==
  /\ where = "first"
  /\ state.depth < MaxSteps
  /\ \E ins \in Instructions(state.source.pc), stop \in BOOLEAN :
       Choice(ins, stop) /\ ThreadedStep(ins, stop)
  /\ new_symbol_table' = state'.symbol_table
  /\ UNCHANGED <<options, solver, has_entry_point>>

\* symex_with_state: the first symex_threaded_step.
FirstStep ==
  /\ where = "first"
  /\ state.depth < MaxSteps
  /\ \E ins \in Instructions(state.source.pc), stop \in BOOLEAN :
       Choice(ins, stop) /\ ThreadedStep(ins, stop)
  /\ UNCHANGED <<options, solver, new_symbol_table, has_entry_point>>

LoopStep_unguarded ==
  /\ where = "loop"
  /\ state.depth < MaxSteps
  /\ \E ins \in Instructions(state.source.pc), stop \in BOOLEAN :
       Choice(ins, stop) /\ ThreadedStep(ins, stop)
  /\ UNCHANGED <<options, solver, new_symbol_table, has_entry_point>>

\* symex_with_state: one iteration of the loop.
LoopStep ==
  /\ where = "loop"
  /\ state.depth < MaxSteps
  /\ call_stack(Ctx(state, symex)) # <<>>
  /\ \E ins \in Instructions(state.source.pc), stop \in BOOLEAN :
       Choice(ins, stop) /\ ThreadedStep(ins, stop)
  /\ UNCHANGED <<options, solver, new_symbol_table, has_entry_point>>

LoopExit_anytime ==
  /\ where = "loop"
  /\ where' = "done"
  /\ symex' = [symex EXCEPT !.ns = "outer"]
  /\ new_symbol_table' = state.symbol_table
  /\ UNCHANGED <<options, solver, state, has_entry_point>>

\* symex_with_state: the loop ends and the method returns.
LoopExit ==
  /\ where = "loop"
  /\ call_stack(Ctx(state, symex)) = <<>>
  /\ where' = "done"
  /\ symex' = [symex EXCEPT !.ns = "outer"]
  /\ new_symbol_table' = state.symbol_table
  /\ UNCHANGED <<options, solver, state, has_entry_point>>

Next ==
  \/ symex_from_entry_point_of
  \/ FirstStep
  \/ LoopStep
  \/ LoopExit
  \/ Resume

Spec == Init /\ [][Next]_vars

\* symex_transition on its own: from any location, with any loop counters
\* in the top frame or with an empty call stack, to any location; as a
\* backwards goto only along a back edge of the program.
MaxCount == 2
Locations == 0..5

TransitionInit ==
  /\ options = NoOptions
  /\ solver = NoSolver
  /\ symex = fresh_symex(Config(0, FALSE, FALSE, FALSE))
  /\ new_symbol_table = CallersTable
  /\ has_entry_point = TRUE
  /\ where = "transition"
  /\ \E pc \in Locations, counts \in [LoopIds -> 0..MaxCount],
        empty \in BOOLEAN :
       state = [fresh_state EXCEPT
                  !.source.pc = pc,
                  !.threads[1].call_stack =
                     IF empty THEN <<>>
                     ELSE <<[new_frame(EndOfFunction) EXCEPT
                               !.loop_iterations = counts]>>]

Transition ==
  /\ where = "transition"
  /\ \E to \in Locations, is_backwards_goto \in BOOLEAN :
       /\ is_backwards_goto =>
            /\ state.source.pc \in LoopIds
            /\ to = LoopTarget(state.source.pc)
       /\ state' =
            symex_transition_to(Ctx(state, symex), to, is_backwards_goto).st
       /\ where' = IF is_backwards_goto THEN "transitioned backwards"
                   ELSE "transitioned"
  /\ UNCHANGED <<options, solver, symex, new_symbol_table, has_entry_point>>

TransitionNext == Transition

TransitionSpec == TransitionInit /\ [][TransitionNext]_vars

\* The factory, run once on each option combination.
FactoryInit ==
  /\ options \in OptionSpace
  /\ solver = NoSolver
  /\ state = fresh_state
  /\ symex = fresh_symex(Config(0, FALSE, FALSE, FALSE))
  /\ where = "factory"
  /\ new_symbol_table = CallersTable
  /\ has_entry_point = TRUE

GetSolver ==
  /\ where = "factory"
  /\ solver' = get_solver(options)
  /\ where' = "returned"
  /\ UNCHANGED <<options, state, symex, new_symbol_table, has_entry_point>>

FactoryNext == GetSolver

FactorySpec == FactoryInit /\ [][FactoryNext]_vars

\* The factory on the option combinations that decide the solver family.
FamilyInit ==
  /\ options \in FamilyOptionSpace
  /\ solver = NoSolver
  /\ state = fresh_state
  /\ symex = fresh_symex(Config(0, FALSE, FALSE, FALSE))
  /\ where = "factory"
  /\ new_symbol_table = CallersTable
  /\ has_entry_point = TRUE

FamilySpec == FamilyInit /\ [][FactoryNext]_vars

(***************************************************************************)
(*                              THE CLAIMS                                 *)
(***************************************************************************)

\* The transition is the symex_threaded_step of instruction ins.
Stepped ==
  /\ where \in {"first", "loop"}
  /\ state'.depth = state.depth + 1

Took(ins, stop) ==
  /\ Stepped
  /\ stop => ins.type = "GOTO" /\ ins.target <= state.source.pc
  /\ Entered.has_saved_jump_target \/ Entered.has_saved_next_instruction
       => ins.type = "GOTO" /\ ins.guard = SymP
  /\ ThreadedStep(ins, stop)

\* The step ended with a switch to another thread.
Switched == Stepped /\ state'.source.thread_nr # state.source.thread_nr

\* The state and object as the switch of symex_step finds them.
AtDispatch == BeforeDispatch(Ctx(Entered, symex))

\* The steps the transition appended from the switch of symex_step on.
AppendedSince(d) == SubSeq(symex'.target, Len(d.sx.target) + 1,
                           Len(symex'.target))

OfType(t) == {ins \in Instructions(state.source.pc) : ins.type = t}

AssertionsIn(steps) ==
  {i \in 1..Len(steps) : steps[i].kind = "assertion"}

\* The condition of an assert as vcc tests it: quantifiers rewritten,
\* renamed, simplified.
RenamedSimplified(d, e) ==
  do_simplify(rename(
    IF has_subexpr(e, "exists") \/ has_subexpr(e, "forall")
    THEN rewrite_quantifiers(d, do_simplify(e)).e
    ELSE e))

\* The state symex_step leaves for symex_threaded_step.
AfterStep(ins, stop) == symex_step(Ctx(Entered, symex), ins, stop)

\* C1: get_solver picks the back end by first match in the order dimacs,
\* refine, refine-strings, smt2: the getter that ran (and built the bundle,
\* unless it threw) is that of the first of the four options that is set,
\* and the default back end is built exactly when none of the four is set.
C1_FirstMatchWins ==
  where = "returned" =>
    /\ options.dimacs => solver.backend = "dimacs"
    /\ ~options.dimacs /\ options.refine => solver.backend = "refine"
    /\ ~options.dimacs /\ ~options.refine /\ options.refine_strings
         => solver.backend = "refine-strings"
    /\ ~options.dimacs /\ ~options.refine /\ ~options.refine_strings
         /\ options.smt2 => solver.backend = "smt2"
    /\ solver.backend = "default"
         <=> ~(options.dimacs \/ options.refine \/ options.refine_strings
               \/ options.smt2)

C1_Witness ==
  /\ where = "returned"
  /\ options.dimacs /\ options.refine /\ options.refine_strings
  /\ options.smt2
  /\ solver.thrown = "none"
  /\ solver.prop_conv = "bv_dimacs"

\* C2: symex_with_state has returned normally only if should_pause_symex is
\* set or the call stack of the current thread is empty.
C2_ReturnsOnlyPausedOrEmpty ==
  where \in {"done", "paused"} =>
    \/ symex.should_pause_symex
    \/ call_stack(Ctx(state, symex)) = <<>>

C2_Witness ==
  /\ where = "done"
  /\ ~symex.should_pause_symex
  /\ call_stack(Ctx(state, symex)) = <<>>
  /\ state.depth = MaxSteps

\* C3: a step that raises should_pause_symex is the last of the invocation:
\* the driver returns with it, no thread switch follows it, and once the
\* driver has returned on the pause nothing happens but a new invocation.
C3_PauseReturnsAtOnce ==
  [][/\ symex'.should_pause_symex /\ ~symex.should_pause_symex
          => /\ where' = "paused"
             /\ state'.source.thread_nr = state.source.thread_nr
     /\ where = "paused" => where' = "first"]_vars

C3_Witness ==
  /\ where = "paused"
  /\ symex.should_pause_symex
  /\ Len(symex.path_storage) = 2
  /\ state.depth > 1

\* C4 as stated: an assert under a non-false guard counts one in total_vccs
\* and path_segment_vccs; if its renamed and simplified condition is not
\* literally true, remaining_vccs counts one and an assertion step is
\* appended; if it is literally true, remaining_vccs stays and nothing at all
\* is appended.
C4_TrueAssertAppendsNothing ==
  [][Stepped =>
      LET d == AtDispatch
      IN ~guard_is_false(d.st.guard) =>
       \A ins \in OfType("ASSERT") : Took(ins, FALSE) =>
        LET Appended == AppendedSince(d)
        IN
         /\ state'.total_vccs = d.st.total_vccs + 1
         /\ symex'.path_segment_vccs = d.sx.path_segment_vccs + 1
         /\ IF is_true(RenamedSimplified(d, ins.guard))
            THEN /\ state'.remaining_vccs = d.st.remaining_vccs
                 /\ Appended = <<>>
            ELSE /\ state'.remaining_vccs = d.st.remaining_vccs + 1
                 /\ Cardinality(AssertionsIn(Appended)) = 1]_vars

\* C4: an assert under a non-false guard counts one in total_vccs and
\* path_segment_vccs; remaining_vccs counts one and an assertion step is
\* appended if and only if the renamed and simplified condition is not
\* literally true.  An assert whose condition simplifies to true appends no
\* assertion step: all it may append are the declaration steps of the forall
\* variables that rewrite_quantifiers declares, and nothing when the
\* condition has no forall.
C4_TrueAssertAppendsNoAssertion ==
  [][Stepped =>
      LET d == AtDispatch
      IN ~guard_is_false(d.st.guard) =>
       \A ins \in OfType("ASSERT") : Took(ins, FALSE) =>
        LET Appended == AppendedSince(d)
        IN
         /\ state'.total_vccs = d.st.total_vccs + 1
         /\ symex'.path_segment_vccs = d.sx.path_segment_vccs + 1
         /\ IF is_true(RenamedSimplified(d, ins.guard))
            THEN /\ state'.remaining_vccs = d.st.remaining_vccs
                 /\ AssertionsIn(Appended) = {}
                 /\ \A i \in 1..Len(Appended) : Appended[i].kind = "decl"
                 /\ ~has_subexpr(ins.guard, "forall") => Appended = <<>>
            ELSE /\ state'.remaining_vccs = d.st.remaining_vccs + 1
                 /\ Cardinality(AssertionsIn(Appended)) = 1
                 /\ Appended[Len(Appended)] =
                      [kind |-> "assertion",
                       guard |-> guard_as_expr(d.st.guard),
                       cond |-> Node2("=>", guard_as_expr(d.st.guard),
                                      RenamedSimplified(d, ins.guard)),
                       msg |-> "assertion",
                       pc |-> state.source.pc,
                       thread_nr |-> state.source.thread_nr]]_vars

\* An assert of a forall whose body renames to true has run as the first
\* instruction: counted, not remaining, and one declaration step appended.
C4_Witness ==
  /\ state.depth = 1
  /\ state.total_vccs = 1
  /\ state.remaining_vccs = 0
  /\ symex.path_segment_vccs = 1
  /\ Len(symex.target) = 1
  /\ symex.target[1].kind = "decl"

\* C5: under a guard that is false when the switch of symex_step is reached,
\* an instruction of any kind but END_FUNCTION, DEAD and ATOMIC_END only
\* advances the pc: no step is appended, no VCC counter changes, no frame
\* is pushed or popped, no thread is created.  END_FUNCTION pops its frame
\* also under a false guard.
C5_FalseGuardOnlyAdvances ==
  [][Stepped =>
      LET d == AtDispatch
      IN guard_is_false(d.st.guard) =>
       \A ins \in Instructions(state.source.pc), stop \in BOOLEAN :
        ins.type # "NO_INSTRUCTION_TYPE" /\ Took(ins, stop) =>
          LET cur == state.source.thread_nr + 1
              Appended == AppendedSince(d)
          IN IF ins.type = "END_FUNCTION"
             THEN Len(state'.threads[cur].call_stack) =
                    Len(state.threads[cur].call_stack) - 1
             ELSE ins.type \notin {"DEAD", "ATOMIC_END"} =>
                    /\ Appended = <<>>
                    /\ state'.total_vccs = d.st.total_vccs
                    /\ state'.remaining_vccs = d.st.remaining_vccs
                    /\ symex'.path_segment_vccs = d.sx.path_segment_vccs
                    /\ Len(state'.threads) = Len(state.threads)
                    /\ Len(state'.threads[cur].call_stack) =
                         Len(state.threads[cur].call_stack)
                    /\ state'.source.thread_nr = state.source.thread_nr
                    /\ state'.source.pc = state.source.pc + 1
                    /\ guard_is_false(state'.guard)]_vars

\* Three instructions have run: the path became infeasible without a step
\* being recorded, and what ran after that left no trace but the pc.
C5_Witness ==
  /\ where = "loop"
  /\ state.depth = MaxSteps
  /\ state.source.pc = MaxSteps
  /\ guard_is_false(state.guard)
  /\ symex.target = <<>>
  /\ state.total_vccs = 0
  /\ Len(state.threads) = 1
  /\ Len(state.threads[1].call_stack) = 1

\* C6 as stated: a switch happens after a step exactly when the call stack
\* of the current thread is empty and the thread with the next number
\* exists; the record of the outgoing thread receives the state's pc,
\* atomic-section id and guard, and afterwards the state's pc, atomic-section
\* id and guard are those of the record of the incoming thread.
C6_SavesAndRestoresAll ==
  [][Stepped =>
      LET old == state.source.thread_nr
          new == state'.source.thread_nr
      IN /\ Switched <=> /\ state'.threads[old + 1].call_stack = <<>>
                         /\ old + 1 < Len(state'.threads)
         /\ Switched =>
              \A ins \in Instructions(state.source.pc), stop \in BOOLEAN :
                Took(ins, stop) =>
                  LET m == AfterStep(ins, stop).st
                      out == state'.threads[old + 1]
                      inc == state'.threads[new + 1]
                  IN /\ new = old + 1
                     /\ out.pc = m.source.pc
                     /\ out.atomic_section_id = m.atomic_section_id
                     /\ out.guard = m.guard
                     /\ state'.source.pc = inc.pc
                     /\ state'.atomic_section_id = inc.atomic_section_id
                     /\ state'.guard = inc.guard]_vars

\* C6: a switch happens after a step exactly when the call stack of the
\* current thread is empty and the thread with the next number exists.  The
\* record of the outgoing thread receives the state's pc and atomic-section
\* id, and its guard field stays what it was; afterwards the state's pc and
\* guard are those of the record of the incoming thread, and the state's
\* atomic-section id is the one it had before the switch.
C6_SavesPcAndIdRestoresPcAndGuard ==
  [][Stepped =>
      LET old == state.source.thread_nr
          new == state'.source.thread_nr
      IN /\ Switched <=> /\ state'.threads[old + 1].call_stack = <<>>
                         /\ old + 1 < Len(state'.threads)
         /\ Switched =>
              \A ins \in Instructions(state.source.pc), stop \in BOOLEAN :
                Took(ins, stop) =>
                  LET m == AfterStep(ins, stop).st
                      out == state'.threads[old + 1]
                      inc == state'.threads[new + 1]
                  IN /\ new = old + 1
                     /\ out.pc = m.source.pc
                     /\ out.atomic_section_id = m.atomic_section_id
                     /\ out.guard = m.threads[old + 1].guard
                     /\ state'.source.pc = inc.pc
                     /\ state'.atomic_section_id = m.atomic_section_id
                     /\ state'.guard = inc.guard]_vars

\* The first thread spawned a second, ended, and its function returned: the
\* second thread runs under the guard of its record while the record of the
\* first keeps the guard it was created with.
C6_Witness ==
  /\ where = "loop"
  /\ Len(state.threads) = 2
  /\ state.source.thread_nr = 1
  /\ state.threads[1].call_stack = <<>>
  /\ state.threads[1].pc = 3
  /\ state.threads[1].guard = guard_true
  /\ state.source.pc = state.threads[2].pc
  /\ state.guard = state.threads[2].guard
  /\ state.depth = MaxSteps

\* C7: no step ends with a switch to another thread while the state's
\* atomic-section id is greater than zero.
C7_NoSwitchInAtomicSection ==
  [][Switched => ~(state'.atomic_section_id > 0)]_vars

\* C8: symex_assume on a live path.  A condition that simplifies to true
\* changes nothing.  Otherwise, with a single thread, one assumption step
\* with the guard and (guard => condition) is appended and the guard stays;
\* with several threads nothing is appended and the condition is conjoined
\* to the guard.
C8_Assume ==
  [][Stepped =>
      LET d == AtDispatch
      IN ~guard_is_false(d.st.guard) =>
       \A ins \in OfType("ASSUME") : Took(ins, FALSE) =>
         LET cond == do_simplify(rename(ins.guard))
             Appended == AppendedSince(d)
         IN IF is_true(cond)
            THEN /\ state' = symex_transition(d).st
                 /\ Appended = <<>>
            ELSE IF Len(d.st.threads) = 1
            THEN /\ Len(Appended) = 1
                 /\ Appended[1].kind = "assumption"
                 /\ Appended[1].guard = guard_as_expr(d.st.guard)
                 /\ Appended[1].cond =
                      Node2("=>", guard_as_expr(d.st.guard), cond)
                 /\ state'.guard = d.st.guard
            ELSE /\ Appended = <<>>
                 /\ state'.guard = guard_add(d.st.guard, cond)]_vars

\* With two threads, an assume of p went into the guard and not into the
\* equation, which holds the spawn only.
C8_Witness ==
  /\ Len(state.threads) = 2
  /\ state.source.thread_nr = 0
  /\ state.guard = <<SymP>>
  /\ Len(symex.target) = 1
  /\ symex.target[1].kind = "spawn"
  /\ state.depth = 2

\* C9: within a path the equation only grows: every step emitted earlier is
\* still there, unchanged and at its place, after each step of the driver.
C9_AppendOnly ==
  [][(where \in {"first", "loop"}) =>
       /\ Len(symex.target) <= Len(symex'.target)
       /\ \A i \in 1..Len(symex.target) :
            symex'.target[i] = symex.target[i]]_vars

C9_Witness ==
  /\ Len(symex.target) = MaxSteps
  /\ state.depth = MaxSteps
  /\ \E i \in 1..Len(symex.target) : symex.target[i].kind = "assertion"

\* C10: symex_step is never entered with an empty thread vector or with an
\* empty call stack of the current thread, the first step of an invocation
\* and the first step after a thread switch included.
C10_StepPreconditions ==
  /\ where # "aborted"
  /\ where = "first" =>
       /\ state.threads # <<>>
       /\ call_stack(Ctx(state, symex)) # <<>>

\* A step has run in the thread that was switched to.
C10_Witness ==
  /\ where = "loop"
  /\ state.source.thread_nr = 1
  /\ \E i \in 1..Len(symex.target) : symex.target[i].thread_nr = 1

\* The back end get_solver goes for, by the options alone.
Returned == where = "returned"
DimacsSelected == options.dimacs
RefineSelected == ~options.dimacs /\ options.refine
StringsSelected ==
  ~options.dimacs /\ ~options.refine /\ options.refine_strings
Smt2Selected ==
  /\ ~options.dimacs /\ ~options.refine /\ ~options.refine_strings
  /\ options.smt2
DefaultSelected ==
  ~(options.dimacs \/ options.refine \/ options.refine_strings
    \/ options.smt2)

\* get_solver ended in an invalid_command_line_argument_exceptiont and
\* handed out no bundle.
ConfigurationError ==
  /\ solver.thrown # "none"
  /\ solver.prop = "none" /\ solver.prop_conv = "none"
  /\ solver.ofstream = "none"

\* C11: with dimacs selected, get_solver fails with a configuration error
\* and returns no back end if all-properties, cover or incremental-check is
\* set; it returns the DIMACS dumper exactly when none of the three and no
\* beautification is requested.
C11_DimacsRejectsIncremental ==
  Returned /\ DimacsSelected =>
    LET incremental == \/ options.all_properties
                       \/ options.cover
                       \/ options.incremental_check
    IN /\ incremental => ConfigurationError
       /\ incremental /\ ~options.beautify =>
            solver.thrown =
              "the chosen solver does not support incremental solving"
       /\ IF incremental \/ options.beautify
          THEN ConfigurationError
          ELSE /\ solver.thrown = "none"
               /\ solver.prop_conv = "bv_dimacs"
               /\ solver.prop = "dimacs_cnf"

C11_Witness ==
  /\ Returned /\ DimacsSelected
  /\ options.cover /\ ~options.all_properties /\ ~options.incremental_check
  /\ ~options.beautify
  /\ ConfigurationError
  /\ solver.option = "--cover"

\* C12: with beautify set, get_solver raises the beautification error for
\* dimacs, for smt2 (whatever the output file, so before it is opened) and
\* for refine with the SAT preprocessor on; every bundle it returns with
\* beautify set has the non-simplifying SAT back end.
C12_BeautifyNeverWithSimplifier ==
  Returned /\ options.beautify =>
    /\ (\/ DimacsSelected
        \/ Smt2Selected
        \/ RefineSelected /\ options.sat_preprocessor) =>
          /\ ConfigurationError
          /\ solver.thrown =
               "the chosen solver does not support beautification"
          /\ solver.option = "--beautify"
    /\ solver.thrown = "none" =>
          /\ solver.prop = "satcheck_no_simplifier"
          /\ solver.backend \in {"refine", "refine-strings", "default"}

C12_Witness ==
  /\ Returned /\ options.beautify
  /\ Smt2Selected
  /\ options.outfile = "unwritable"
  /\ solver.thrown = "the chosen solver does not support beautification"

\* C13 as stated: the default back end has the simplifying SAT back end if
\* and only if beautify is not set, whatever the other options.
C13_SimplifierIffNotBeautify ==
  Returned /\ DefaultSelected =>
    /\ solver.thrown = "none"
    /\ solver.prop = "satcheck" <=> ~options.beautify

\* C13: the default back end has the simplifying SAT back end if and only
\* if beautify is not set and sat-preprocessor is set; otherwise it has the
\* non-simplifying one.
C13_SimplifierIffPreprocessorAndNotBeautify ==
  Returned /\ DefaultSelected =>
    /\ solver.thrown = "none"
    /\ solver.prop_conv = "bv_pointers"
    /\ solver.prop \in {"satcheck", "satcheck_no_simplifier"}
    /\ solver.prop = "satcheck"
         <=> ~options.beautify /\ options.sat_preprocessor

C13_Witness ==
  /\ Returned /\ DefaultSelected
  /\ ~options.beautify /\ ~options.sat_preprocessor
  /\ solver.prop = "satcheck_no_simplifier"

\* C14: with smt2 selected and beautify off, the outfile decides.  Empty
\* and family generic: a configuration error.  Empty and another family: the
\* in-process decision procedure, no stream owned.  "-": a converter to
\* standard output, no stream owned.  Any other name: a converter to that
\* file with the stream owned by the bundle, or a configuration error if
\* the file cannot be opened.
C14_Smt2Destination ==
  Returned /\ Smt2Selected /\ ~options.beautify =>
    LET generic == options.family \subseteq {"generic"}
    IN CASE options.outfile = "" /\ generic ->
              /\ ConfigurationError
              /\ solver.thrown = "required filename not provided"
         [] options.outfile = "" /\ ~generic ->
              /\ solver.thrown = "none"
              /\ solver.prop_conv = "smt2_dec"
              /\ solver.dest = "in-process"
              /\ solver.ofstream = "none"
              /\ solver.family \in options.family
         [] options.outfile = "-" ->
              /\ solver.thrown = "none"
              /\ solver.prop_conv = "smt2_conv"
              /\ solver.dest = "stdout"
              /\ solver.ofstream = "none"
         [] options.outfile = "unwritable" ->
              /\ ConfigurationError
              /\ solver.thrown = "failed to open file"
         [] OTHER ->
              /\ solver.thrown = "none"
              /\ solver.prop_conv = "smt2_conv"
              /\ solver.dest = "file"
              /\ solver.ofstream = "owned"

C14_Witness ==
  /\ Returned /\ Smt2Selected /\ ~options.beautify
  /\ options.outfile = "out.smt2"
  /\ options.family = {"z3"}
  /\ solver.ofstream = "owned"
  /\ solver.family = "z3"

\* C15: every bundle get_solver returns has the solver-time-limit applied to
\* its conversion layer when the limit is greater than 0, and no limit when
\* it is 0 or less.
C15_TimeLimitOnEveryBackEnd ==
  Returned /\ solver.thrown = "none" =>
    solver.time_limit =
      IF options.solver_time_limit > 0 THEN options.solver_time_limit ELSE 0

\* C16 as stated: every bundle get_solver returns holds a propositional back
\* end and a conversion layer.
C16_PropAndPropConvNonNull ==
  Returned /\ solver.thrown = "none" =>
    /\ solver.prop_conv # "none"
    /\ solver.prop # "none"

\* C16: every bundle get_solver returns holds a conversion layer, so
\* prop_conv() can be called on it.  It holds a propositional back end
\* exactly when it is not an SMT2 bundle: on the three SMT2 bundles prop()
\* fails its precondition.  A stream is owned by the SMT2 bundle that
\* writes to a named file and by no other.
C16_PropConvNonNullPropUnlessSmt2 ==
  Returned /\ solver.thrown = "none" =>
    /\ solver.prop_conv # "none"
    /\ solver.prop = "none" <=> solver.backend = "smt2"
    /\ solver.backend = "smt2" <=> Smt2Selected
    /\ solver.ofstream # "none"
         <=> Smt2Selected /\ options.outfile \notin {"", "-"}

C16_Witness ==
  /\ Returned /\ solver.thrown = "none"
  /\ Smt2Selected
  /\ options.outfile = "-"
  /\ solver.prop_conv = "smt2_conv"
  /\ solver.prop = "none"

\* C17: symex_from_entry_point_of on a program without entry point throws
\* before any state is initialised: state, object, equation and
\* new_symbol_table are as they were, and no step follows.
C17_NoEntryPoint ==
  [][/\ where = "constructed" /\ ~has_entry_point =>
          /\ where' = "thrown"
          /\ state' = fresh_state
          /\ symex' = symex
          /\ symex'.target = <<>>
          /\ new_symbol_table' = new_symbol_table
     /\ where = "thrown" => FALSE]_vars

C17_Witness ==
  /\ where = "thrown"
  /\ ~has_entry_point
  /\ state = fresh_state
  /\ state.depth = 0
  /\ symex.target = <<>>
  /\ new_symbol_table = CallersTable

\* C18 as stated: a step on an instruction without instruction kind throws,
\* appends nothing to the equation and does not advance the pc, and no
\* step follows it.
C18_NoInstructionAppendsNothing ==
  [][/\ Stepped =>
          \A ins \in OfType("NO_INSTRUCTION_TYPE") : Took(ins, FALSE) =>
            /\ where' = "thrown"
            /\ symex'.target = symex.target
            /\ state'.source = state.source
     /\ where = "thrown" => FALSE]_vars

\* C18: a step on an instruction without instruction kind throws and does
\* not advance the pc; the switch appends nothing, but the step has by then
\* counted in the depth and merged the gotos saved for this pc, which
\* appends their phi assignments unless paths are explored.  No step
\* follows it.
C18_NoInstructionAppendsOnlyPhi ==
  [][/\ Stepped =>
          \A ins \in OfType("NO_INSTRUCTION_TYPE") : Took(ins, FALSE) =>
            LET d == AtDispatch
                merged == SubSeq(symex'.target, Len(symex.target) + 1,
                                 Len(symex'.target))
            IN /\ where' = "thrown"
               /\ state'.source = state.source
               /\ AppendedSince(d) = <<>>
               /\ Len(symex.target) <= Len(symex'.target)
               /\ \A i \in 1..Len(merged) :
                    merged[i].kind = "assignment" /\ merged[i].msg = "phi"
               /\ symex.symex_config.doing_path_exploration =>
                    symex'.target = symex.target
               /\ state'.depth = state.depth + 1
     /\ where = "thrown" => FALSE]_vars

\* The step that threw had a goto to merge, and a variable had been written
\* since that goto: its phi assignment is the last step of the equation.
C18_Witness ==
  /\ where = "thrown"
  /\ state.depth = MaxSteps
  /\ Len(symex.target) = 2
  /\ symex.target[2].msg = "phi"
  /\ symex.target[2].pc = state.source.pc

\* C19 as stated: symex_transition zeroes the counter of exactly the loops
\* headed at the target that are entered, a backwards goto entering those
\* whose back edge lies at or before the location it is taken from.
C19_ResetFromDeeperOrEqual ==
  [][where = "transition" =>
      LET pc == state.source.pc
          to == state'.source.pc
          back == where' = "transitioned backwards"
      IN IF state.threads[1].call_stack = <<>>
         THEN state'.threads = state.threads
         ELSE \A l \in LoopIds :
                state'.threads[1].call_stack[1].loop_iterations[l] =
                  IF LoopTarget(l) = to /\ (~back \/ pc >= l)
                  THEN 0
                  ELSE state.threads[1].call_stack[1].loop_iterations[l]]_vars

\* C19: symex_transition zeroes the counter of exactly the loops headed at
\* the target that are entered: all of them when the transition is not a
\* backwards goto, and on a backwards goto those whose back edge lies
\* strictly before the location the goto is taken from.  The counters of
\* all other loops, the one of the back edge taken among them, stay, and
\* with an empty call stack no counter is touched.
C19_ResetFromStrictlyDeeper ==
  [][where = "transition" =>
      LET pc == state.source.pc
          to == state'.source.pc
          back == where' = "transitioned backwards"
      IN IF state.threads[1].call_stack = <<>>
         THEN state'.threads = state.threads
         ELSE \A l \in LoopIds :
                state'.threads[1].call_stack[1].loop_iterations[l] =
                  IF LoopTarget(l) = to /\ (~back \/ pc > l)
                  THEN 0
                  ELSE state.threads[1].call_stack[1].loop_iterations[l]]_vars

\* A backwards goto was taken along the first back edge of the loop header:
\* no counter was zeroed.
C19_Witness ==
  /\ where = "transitioned backwards"
  /\ state.threads[1].call_stack # <<>>
  /\ \A l \in LoopIds :
       state.threads[1].call_stack[1].loop_iterations[l] = MaxCount

\* C20: resume_symex_from_saved_state runs symex_with_state on a copy of the
\* saved state that points to the equation passed: the states in path
\* storage stay as they are, the first step is taken at the pc of the saved
\* state, and source, calling location and all other fields are those of
\* the saved state, not those initialize_entry_point sets.
C20_ResumeFromCopy ==
  [][/\ where = "paused" /\ where' = "first" =>
          \E i \in 1..Len(symex.path_storage) :
            /\ state' = [symex.path_storage[i] EXCEPT
                           !.symex_target = "saved_equation"]
            /\ state'.source = symex.path_storage[i].source
            /\ state'.threads = symex.path_storage[i].threads
     /\ where \in {"paused", "first", "loop"} =>
          /\ Len(symex.path_storage) <= Len(symex'.path_storage)
          /\ \A i \in 1..Len(symex.path_storage) :
               symex'.path_storage[i] = symex.path_storage[i]]_vars

\* A resumed state has taken its first step, the goto it was saved at, and
\* the saved state is still in path storage as it was.
C20_Witness ==
  /\ where = "loop"
  /\ state.symex_target = "saved_equation"
  /\ state.depth = MaxSteps
  /\ Len(symex.path_storage) = 2
  /\ symex.path_storage[2].has_saved_jump_target
  /\ symex.path_storage[2].symex_target = "target"
  /\ state.source.pc = symex.path_storage[2].source.pc + MaxTarget

\* C21: get_total_vccs and get_remaining_vccs violate their invariant on an
\* object no symex_threaded_step has run on, and after every
\* symex_threaded_step that returns, a pause included, they return the
\* state's total_vccs and remaining_vccs as of the end of that step.
C21_CachedVccs ==
  [][/\ where = "constructed" =>
          /\ get_total_vccs(symex).invariant_violated
          /\ get_remaining_vccs(symex).invariant_violated
          /\ get_total_vccs(symex') = get_total_vccs(symex)
          /\ get_remaining_vccs(symex') = get_remaining_vccs(symex)
     /\ where = "paused" /\ where' = "first" =>
          \/ /\ symex'.target = <<>>
             /\ get_total_vccs(symex').invariant_violated
             /\ get_remaining_vccs(symex').invariant_violated
          \/ /\ get_total_vccs(symex') = get_total_vccs(symex)
             /\ get_remaining_vccs(symex') = get_remaining_vccs(symex)
     /\ Stepped /\ where' \in {"loop", "paused"} =>
          /\ get_total_vccs(symex') =
               [invariant_violated |-> FALSE, value |-> state'.total_vccs]
          /\ get_remaining_vccs(symex') =
               [invariant_violated |-> FALSE, value |-> state'.remaining_vccs]
     /\ where' = "done" =>
          /\ get_total_vccs(symex').value = state'.total_vccs
          /\ get_remaining_vccs(symex').value = state'.remaining_vccs]_vars

\* A step that counted an assertion was followed by one that paused: the
\* getters return the counts of the paused state.
C21_Witness ==
  /\ where = "paused"
  /\ state.total_vccs = 2
  /\ state.remaining_vccs = 1
  /\ get_total_vccs(symex) = [invariant_violated |-> FALSE, value |-> 2]
  /\ get_remaining_vccs(symex) = [invariant_violated |-> FALSE, value |-> 1]

\* C22: depth is the maximum number of steps of a path: with depth d > 0 the
\* depth check forces the guard to false from the (d+1)-th step of the path
\* on and those steps emit nothing, and with depth 0 the check never
\* touches the guard.
C22_DepthIsMaxSteps ==
  [][Stepped =>
      LET d == symex.symex_config.max_depth
          at == AtDispatch
          merged == IF symex.symex_config.doing_path_exploration
                    THEN Ctx(Entered, symex)
                    ELSE merge_gotos(Ctx(Entered, symex))
      IN /\ d > 0 /\ state.depth + 1 >= d + 1 =>
              /\ guard_is_false(at.st.guard)
              /\ AppendedSince(at) = <<>>
         /\ d > 0 /\ state.depth + 1 <= d => at.st.guard = merged.st.guard
         /\ d = 0 => at.st.guard = merged.st.guard]_vars

\* C23: for the SMT-LIB back end, in each of the three destinations, the
\* logic handed to the back end is QF_AUFBV with fpa off and QF_AUFBVFP with
\* fpa on.
C23_LogicFollowsFpa ==
  Returned /\ Smt2Selected /\ solver.thrown = "none" =>
    /\ solver.dest \in {"in-process", "stdout", "file"}
    /\ solver.logic = IF options.fpa THEN "QF_AUFBVFP" ELSE "QF_AUFBV"

\* C24: on every way out of symex_with_state, completion, pause or an error
\* raised by a step, the namespace wraps a single symbol table and no longer
\* the state's; during the steps of the invocation it wraps the outer
\* symbol table and the state's.
C24_NamespaceReset ==
  [][/\ where \in {"first", "loop"} => symex.ns = "outer+state"
     /\ where' \in {"done", "paused", "thrown"} => symex'.ns = "outer"
     /\ Stepped /\ where' = "loop" => symex'.ns = "outer+state"]_vars

\* A step raised an error: the namespace is back to the outer symbol table.
C24_Witness ==
  /\ where = "thrown"
  /\ state.depth > 0
  /\ state.symex_target = "target"
  /\ symex.ns = "outer"

\* The family options in the order get_smt2_solver_type tests them.
FamilyOrder ==
  <<"boolector", "cprover-smt2", "mathsat", "cvc3", "cvc4", "yices", "z3",
    "generic">>

FirstSet(family) ==
  IF family = {} THEN "generic"
  ELSE FamilyOrder[CHOOSE i \in 1..Len(FamilyOrder) :
                     /\ FamilyOrder[i] \in family
                     /\ \A j \in 1..(i - 1) : FamilyOrder[j] \notin family]

\* C25: get_smt2_solver_type gives generic when no family option is set,
\* the family set when one is, and with several set the first of them in the
\* order boolector, cprover-smt2, mathsat, cvc3, cvc4, yices, z3, generic;
\* a family is chosen only when smt2 selects the back end.
C25_FirstFamilySetWins ==
  Returned =>
    /\ solver.family # "none" => Smt2Selected
    /\ Smt2Selected /\ solver.thrown = "none" =>
         solver.family = FirstSet(options.family)
    /\ Smt2Selected /\ solver.thrown = "required filename not provided" =>
         FirstSet(options.family) = "generic"
    /\ Smt2Selected /\ options.outfile = "" =>
         (solver.thrown = "none" <=> FirstSet(options.family) # "generic")

C25_Witness ==
  /\ Returned /\ Smt2Selected
  /\ options.family = {"generic", "z3", "mathsat"}
  /\ solver.family = "mathsat"

\* C26: the threads run one after the other in increasing thread number.
\* A step leaves source.thread_nr as it is or raises it by one, and raises
\* it only when the call stack of the thread it leaves is empty; whenever a
\* thread takes a step the call stacks of all threads before it are empty;
\* and when symex_with_state returns without a pause the current thread has
\* an empty call stack and is the last thread of the thread vector (every
\* thread starts with a frame, so the driver never stops on a thread that
\* was empty when switched to).
C26_ThreadsInSequence ==
  [][/\ Stepped =>
          LET t == state.source.thread_nr
              u == state'.source.thread_nr
          IN /\ u \in {t, t + 1}
             /\ u = t + 1 => state'.threads[t + 1].call_stack = <<>>
             /\ \A k \in 1..t : state.threads[k].call_stack = <<>>
             /\ \A k \in 1..u : state'.threads[k].call_stack = <<>>
     /\ where' = "done" =>
          /\ state'.threads[state'.source.thread_nr + 1].call_stack = <<>>
          /\ state'.source.thread_nr + 1 = Len(state'.threads)
          /\ state'.source.thread_nr >= state.source.thread_nr]_vars

\* Two threads ran to their end one after the other.
C26_Witness ==
  /\ where = "done"
  /\ Len(state.threads) = 2
  /\ state.source.thread_nr = 1
  /\ \A k \in 1..2 : state.threads[k].call_stack = <<>>

\* C27: taking a loop's own back edge never zeroes that loop's counter: a
\* symex_transition that is a backwards goto taken at location p leaves the
\* counter of every loop whose back edge is p or lies after p as it was.
C27_OwnBackEdgeKeepsCounter ==
  [][(where = "transition" /\ where' = "transitioned backwards") =>
      /\ state.source.pc \in LoopIds
      /\ state'.source.pc = LoopTarget(state.source.pc)
      /\ state.threads[1].call_stack # <<>> =>
           \A l \in LoopIds :
             l >= state.source.pc =>
               state'.threads[1].call_stack[1].loop_iterations[l] =
                 state.threads[1].call_stack[1].loop_iterations[l]]_vars

\* The back edge of a loop that had been round once was taken: its counter
\* is still 1.
C27_Witness ==
  /\ where = "transitioned backwards"
  /\ state.threads[1].call_stack # <<>>
  /\ state.threads[1].call_stack[1].loop_iterations[3] = 1
  /\ state.threads[1].call_stack[1].loop_iterations[4] = MaxCount

\* C28: in every state of a run started from a fresh state and an empty
\* equation, remaining_vccs <= total_vccs, path_segment_vccs <= total_vccs,
\* and the equation holds as many assertion steps as remaining_vccs counts.
C28_VccCounters ==
  state.symex_target = "target" =>
    /\ state.remaining_vccs <= state.total_vccs
    /\ symex.path_segment_vccs <= state.total_vccs
    /\ Cardinality(AssertionsIn(symex.target)) = state.remaining_vccs

\* Three assertions were met on the run, one of them true after
\* simplification: two steps in the equation.
C28_Witness ==
  /\ state.symex_target = "target"
  /\ state.total_vccs = MaxSteps
  /\ state.remaining_vccs = MaxSteps - 1
  /\ symex.path_segment_vccs = MaxSteps
  /\ Cardinality(AssertionsIn(symex.target)) = MaxSteps - 1

\* C29: should_pause_symex is false from construction until a step raises
\* it, and on that object it stays true: only a step sets it, it is false
\* again only on an object constructed for a resumed path, and an
\* invocation entered with the flag true takes exactly one step and
\* returns, so no step of the loop is ever taken with the flag true.
C29_PauseFlagNeverCleared ==
  [][/\ where = "constructed" => ~symex.should_pause_symex
     /\ ~symex.should_pause_symex /\ symex'.should_pause_symex => Stepped
     /\ symex.should_pause_symex /\ ~symex'.should_pause_symex =>
          /\ where = "paused" /\ where' = "first"
          /\ symex' = [fresh_symex(symex.symex_config) EXCEPT
                         !.path_storage = symex.path_storage,
                         !.ns = "outer+state"]
     /\ where = "first" /\ symex.should_pause_symex =>
          /\ where' = "paused"
          /\ state'.depth = state.depth + 1
     /\ where = "loop" => ~symex.should_pause_symex]_vars

\* A resumed state took one step on the object that had paused, without
\* saving anything, and the invocation returned.
C29_Witness ==
  /\ where = "paused"
  /\ symex.should_pause_symex
  /\ state.symex_target = "saved_equation"
  /\ Len(symex.path_storage) = 2
  /\ state.depth = symex.path_storage[1].depth + 1

\* C30: symex_with_state writes new_symbol_table only on the completion
\* exit, after the last step, as a copy of the state's symbol table; when
\* the invocation ends in a pause or in an error new_symbol_table is as the
\* caller passed it.
C30_TableWrittenOnCompletionOnly ==
  [][/\ new_symbol_table' # new_symbol_table =>
          where = "loop" /\ where' = "done"
     /\ where' = "done" =>
          /\ new_symbol_table' = state'.symbol_table
          /\ state' = state
     /\ where' \in {"paused", "thrown"} =>
          /\ new_symbol_table' = new_symbol_table
          /\ new_symbol_table' = CallersTable]_vars

\* The run minted a name and completed: the caller's table holds it.
C30_Witness ==
  /\ where = "done"
  /\ state.symbol_table = 1
  /\ new_symbol_table = 1

=============================================================================
